---- MODULE Spec2Model ----
(***************************************************************************)
(* Model of the two profiling functions shared by                          *)
(* analyze_clinical_trials.py and analyze_clinical_trials_psycopg.py:      *)
(* analyze_column_population and analyze_jsonb_field, and of one run of    *)
(* each script from its entry point.  The two files hold the same text for *)
(* both functions; their line numbers below refer to                       *)
(* analyze_clinical_trials.py.                                             *)
(*                                                                         *)
(* Python values are tagged records.  A str value is a sequence of         *)
(* one-character strings; column names, dict keys and type names are       *)
(* atoms.  Numbers are ints (floats are outside the value universe).       *)
(***************************************************************************)
EXTENDS Integers, Sequences, FiniteSets, TLC

VARIABLES records, field_name, pc, column_stats, report,
          script, table, conn, exc, done

\* the state of one run of a script: which script runs, the rows of the
\* clinical_trials table, the database connection, the exception raised (if
\* any) and the steps completed so far
runVars == <<script, table, conn, exc, done>>

vars == <<records, field_name, pc, column_stats, report, script, table, conn, exc, done>>

\* no psycopg2.connect yet
NoConn == [state |-> "none", acquired |-> 0]

\* nothing raised
NoExc == [kind |-> "", at |-> "", progress |-> 0, caught_by |-> "", printed |-> <<>>]

\* a profiling function called on its own, outside a run
NoRun ==
    /\ script = "none"
    /\ table = <<>>
    /\ conn = NoConn
    /\ exc = NoExc
    /\ done = <<>>

----------------------------------------------------------------------------
(* Bounds of the input universe *)

\* longest record sequence over the full one-column value set
MaxLong == 4
\* longest record sequence over two columns with differing key sets
MaxWide == 2
\* longest generated str value (must exceed TruncLen)
MaxStrLen == 52
\* number of distinct character patterns of the generated str values
MaxShift == 1
\* longest record sequence over the full value set of a JSONB field
MaxMixed == 3
\* longest record sequence over the array-branch value set (must exceed LengthsCap)
MaxDeep == 6
\* most rows in the clinical_trials table (must exceed SampleLimit)
MaxRows == 6

----------------------------------------------------------------------------
(* Program constants *)

\* len(sample_values) < 3
SampleCap == 3
\* str(value)[:50] ... len(str(value)) > 50
TruncLen == 50
\* field_values[:5]
LengthsCap == 5
\* str(val)[:50]
ObjTextLen == 50
\* SELECT * FROM clinical_trials LIMIT 5 / .limit(5)
SampleLimit == 5
\* sample_records[:2]
DisplayCap == 2

----------------------------------------------------------------------------
(* Python values *)

PyNone == [kind |-> "NoneType", b |-> FALSE, n |-> 0, s |-> <<>>, keys |-> <<>>, items |-> <<>>]

PyBool(x) == [kind |-> "bool", b |-> x, n |-> 0, s |-> <<>>, keys |-> <<>>, items |-> <<>>]

PyInt(x) == [kind |-> "int", b |-> FALSE, n |-> x, s |-> <<>>, keys |-> <<>>, items |-> <<>>]

PyStr(x) == [kind |-> "str", b |-> FALSE, n |-> 0, s |-> x, keys |-> <<>>, items |-> <<>>]

PyList(x) == [kind |-> "list", b |-> FALSE, n |-> 0, s |-> <<>>, keys |-> <<>>, items |-> x]

\* a dict keeps insertion order: keys[i] maps to items[i]
PyDict(k, x) == [kind |-> "dict", b |-> FALSE, n |-> 0, s |-> <<>>, keys |-> k, items |-> x]

\* record.get(col): None when the key is missing
Get(record, col) == IF col \in DOMAIN record THEN record[col] ELSE PyNone

\* type(value).__name__
TypeName(value) == value.kind

\* len(value); defined for str, list and dict only
HasLen(value) == value.kind \in {"str", "list", "dict"}

PyLen(value) ==
    CASE value.kind = "str" -> Len(value.s)
      [] value.kind = "list" -> Len(value.items)
      [] value.kind = "dict" -> Len(value.keys)
      [] OTHER -> 0

\* bool(value)
Truthy(value) ==
    CASE value.kind = "NoneType" -> FALSE
      [] value.kind = "bool" -> value.b
      [] value.kind = "int" -> value.n # 0
      [] OTHER -> PyLen(value) > 0

DigitChars == <<"0", "1", "2", "3", "4", "5", "6", "7", "8", "9">>

RECURSIVE StrNat(_)
StrNat(x) == IF x < 10 THEN <<DigitChars[x + 1]>>
             ELSE StrNat(x \div 10) \o <<DigitChars[(x % 10) + 1]>>

\* str(value) of a scalar
Str(value) ==
    CASE value.kind = "str" -> value.s
      [] value.kind = "int" -> IF value.n < 0 THEN <<"-">> \o StrNat(-value.n) ELSE StrNat(value.n)
      [] value.kind = "bool" -> IF value.b THEN <<"T", "r", "u", "e">> ELSE <<"F", "a", "l", "s", "e">>
      [] OTHER -> <<"N", "o", "n", "e">>

\* the type name as the characters an f-string writes
TypeNameChars(value) ==
    IF value.kind = "dict" THEN <<"d", "i", "c", "t">> ELSE <<"l", "i", "s", "t">>

\* s[:k]
Prefix(s, k) == SubSeq(s, 1, IF Len(s) < k THEN Len(s) ELSE k)

----------------------------------------------------------------------------
(* analyze_column_population *)

RECURSIVE UnionKeys(_, _)
UnionKeys(recs, i) ==
    IF i > Len(recs) THEN {} ELSE DOMAIN recs[i] \cup UnionKeys(recs, i + 1)

FirstRecordColumns(recs) == IF Len(recs) = 0 THEN {} ELSE DOMAIN recs[1]

\* all_columns = set(); for record in records: all_columns.update(record.keys())
AllColumns(recs) == UnionKeys(recs, 1)

TruthyCounted(value) == Truthy(value)

\* value is not None and value != '' and value != []
IsCounted(value) ==
    /\ value.kind # "NoneType"
    /\ ~(value.kind = "str" /\ value.s = <<>>)
    /\ ~(value.kind = "list" /\ value.items = <<>>)

SampleRoomOffByOne(sample_values) == Len(sample_values) <= SampleCap

\* len(sample_values) < 3
SampleRoom(sample_values) == Len(sample_values) < SampleCap

\* f"{type(value).__name__} with {len(value)} items"
FormatContainer(value) ==
    TypeNameChars(value) \o <<" ", "w", "i", "t", "h", " ">> \o StrNat(PyLen(value))
        \o <<" ", "i", "t", "e", "m", "s">>

FormatScalarAtBoundary(value) ==
    IF Len(Str(value)) >= TruncLen
    THEN Prefix(Str(value), TruncLen) \o <<".", ".", ".">>
    ELSE Str(value)

\* str(value)[:50] + '...' if len(str(value)) > 50 else str(value)
FormatScalar(value) ==
    IF Len(Str(value)) > TruncLen
    THEN Prefix(Str(value), TruncLen) \o <<".", ".", ".">>
    ELSE Str(value)

\* the value appended to sample_values
FormatSample(value) ==
    IF value.kind \in {"dict", "list"} THEN FormatContainer(value) ELSE FormatScalar(value)

\* the inner loop over the records for one column
RECURSIVE ColumnScan(_, _, _, _)
ColumnScan(recs, col, i, acc) ==
    IF i > Len(recs) THEN acc
    ELSE LET value == Get(recs[i], col) IN
         IF IsCounted(value)
         THEN ColumnScan(recs, col, i + 1,
                  [populated |-> acc.populated + 1,
                   sample_values |-> IF SampleRoom(acc.sample_values)
                                     THEN Append(acc.sample_values, FormatSample(value))
                                     ELSE acc.sample_values,
                   data_types |-> acc.data_types \cup {TypeName(value)}])
         ELSE ColumnScan(recs, col, i + 1, acc)

\* column_stats[col] = {...}.  percentage is kept as the exact quotient
\* num/den; type is the set that ', '.join walks (the join order of a set of
\* str is not fixed by the language), or {"unknown"} when it is empty.
ColumnStat(recs, col) ==
    LET acc == ColumnScan(recs, col, 1,
                   [populated |-> 0, sample_values |-> <<>>, data_types |-> {}])
    IN [populated |-> acc.populated,
        total |-> Len(recs),
        percentage |-> [num |-> acc.populated * 100, den |-> Len(recs)],
        type |-> IF acc.data_types # {} THEN acc.data_types ELSE {"unknown"},
        sample_values |-> acc.sample_values]

\* the empty dict
EmptyMapping == [c \in {} |-> 0]

Returned(v) == [raised |-> "", value |-> v]

Raised(e) == [raised |-> e, value |-> EmptyMapping]

analyze_column_population_unguarded(recs) ==
    IF Len(recs) = 0 THEN Raised("ZeroDivisionError")
    ELSE Returned([col \in AllColumns(recs) |-> ColumnStat(recs, col)])

analyze_column_population(recs) ==
    IF Len(recs) = 0 THEN Returned(EmptyMapping)
    ELSE Returned([col \in AllColumns(recs) |-> ColumnStat(recs, col)])

----------------------------------------------------------------------------
(* Input universe of analyze_column_population *)

Alphabet == <<"a", "b", "c">>

\* a str of length len whose characters cycle through Alphabet from shift
GenStr(len, shift) == [i \in 1..len |-> Alphabet[((i + shift) % Len(Alphabet)) + 1]]

ObjX == PyDict(<<"x">>, <<PyInt(1)>>)

ColumnValues ==
    {PyNone, PyStr(<<>>), PyList(<<>>), PyInt(0), PyBool(FALSE), PyDict(<<>>, <<>>),
     PyStr(<<"a", "b">>), PyInt(-12), PyList(<<PyInt(1)>>), ObjX}

WideValues == {PyNone, PyInt(0), PyStr(<<"a", "b">>), PyList(<<>>)}

\* records whose key set is a subset of cols, with values from vals
RecordsOver(cols, vals) == UNION {[S -> vals] : S \in SUBSET cols}

SeqsUpTo(S, len) == UNION {[1..k -> S] : k \in 0..len}

LongInputs == SeqsUpTo(RecordsOver({"a"}, ColumnValues), MaxLong)

WideInputs == SeqsUpTo(RecordsOver({"a", "b"}, WideValues), MaxWide)

StrInputs ==
    {<<[a |-> PyStr(GenStr(len, shift))]>> : len \in 0..MaxStrLen, shift \in 0..MaxShift}

ColumnInputs == LongInputs \cup WideInputs \cup StrInputs

NoStats == Raised("not called")

NoReport == [raised |-> "not called", field_values |-> <<>>, out |-> <<>>]

InitColumns ==
    /\ records \in ColumnInputs
    /\ field_name = "a"
    /\ pc = "call"
    /\ column_stats = NoStats
    /\ report = NoReport
    /\ NoRun

CallAnalyzeColumnPopulation ==
    /\ pc = "call"
    /\ column_stats' = analyze_column_population(records)
    /\ pc' = "returned"
    /\ UNCHANGED <<records, field_name, report>>
    /\ UNCHANGED runVars

NextColumns == CallAnalyzeColumnPopulation

SpecColumns == InitColumns /\ [][NextColumns]_vars

----------------------------------------------------------------------------
(* analyze_jsonb_field *)

IncludedNotNone(value) == value.kind # "NoneType"

IncludedLikeColumns(value) == IsCounted(value)

\* if r.get(field_name)
IsIncluded(value) == Truthy(value)

\* field_values = [r.get(field_name) for r in records if r.get(field_name)]
RECURSIVE FieldValues(_, _, _)
FieldValues(recs, field, i) ==
    IF i > Len(recs) THEN <<>>
    ELSE LET value == Get(recs[i], field) IN
         IF IsIncluded(value)
         THEN <<value>> \o FieldValues(recs, field, i + 1)
         ELSE FieldValues(recs, field, i + 1)

\* One printed line.  tag names the print statement; the other fields hold
\* what the statement interpolates.
BlankLine ==
    [tag |-> "", field |-> "", n |-> 0, lens |-> <<>>, keys |-> <<>>,
     key |-> "", typ |-> "", text |-> <<>>, has_text |-> FALSE]

\* print(f"  No populated {field_name} fields found in sample")
LineNoPopulated(field) == [BlankLine EXCEPT !.tag = "NoPopulated", !.field = field]

\* print(f"  Found {len(field_values)} populated {field_name} fields")
LineFound(count, field) == [BlankLine EXCEPT !.tag = "Found", !.n = count, !.field = field]

\* print(f"  Type: Array of objects")
LineTypeArray == [BlankLine EXCEPT !.tag = "TypeArray"]

\* print(f"  Array lengths: {...}")
LineArrayLengths(lens) == [BlankLine EXCEPT !.tag = "ArrayLengths", !.lens = lens]

\* print(f"  Sample item structure:")
LineSampleItem == [BlankLine EXCEPT !.tag = "SampleItemStructure"]

\* print(f"    - {key}: {val_type}") in the array branch
LineItemKey(key, typ) == [BlankLine EXCEPT !.tag = "ItemKey", !.key = key, !.typ = typ]

\* print(f"  Type: Object")
LineTypeObject == [BlankLine EXCEPT !.tag = "TypeObject"]

\* print(f"  Keys found: {sorted(all_keys)}")
LineKeysFound(keys) == [BlankLine EXCEPT !.tag = "KeysFound", !.keys = keys]

\* print(f"  Sample structure:")
LineSampleStructure == [BlankLine EXCEPT !.tag = "SampleStructure"]

\* print(f"    - {key}: {val_type} = {str(val)[:50]}")
LineStructKeyText(key, typ, text) ==
    [BlankLine EXCEPT !.tag = "StructKey", !.key = key, !.typ = typ,
                      !.text = text, !.has_text = TRUE]

\* print(f"    - {key}: {val_type}") in the object branch
LineStructKey(key, typ) == [BlankLine EXCEPT !.tag = "StructKey", !.key = key, !.typ = typ]

\* field_values[:5]
LengthsSlice(field_values) == Prefix(field_values, LengthsCap)

\* [len(v) for v in field_values[:5]]; len of a value without one raises TypeError
ArrayLengths(field_values) ==
    LET head == LengthsSlice(field_values) IN
    IF \E i \in 1..Len(head) : ~HasLen(head[i])
    THEN [raised |-> "TypeError", lens |-> <<>>]
    ELSE [raised |-> "", lens |-> [i \in 1..Len(head) |-> PyLen(head[i])]]

\* values[0]: an element of a list, a character of a str; a dict keyed by
\* str has no key 0
FirstItem(values) ==
    CASE values.kind = "list" -> [raised |-> "", item |-> values.items[1]]
      [] values.kind = "str" -> [raised |-> "", item |-> PyStr(<<values.s[1]>>)]
      [] OTHER -> [raised |-> "KeyError", item |-> PyNone]

\* for key, val in sample_item.items(): print(f"    - {key}: {val_type}")
ItemLines(sample_item) ==
    [i \in 1..Len(sample_item.keys) |->
        LineItemKey(sample_item.keys[i], TypeName(sample_item.items[i]))]

\* the body of `if values and len(values) > 0:` up to the break
SampleItemReport(values, out) ==
    LET first == FirstItem(values)
        printed == Append(out, LineSampleItem)
    IN IF first.raised # "" THEN [raised |-> first.raised, out |-> printed]
       ELSE IF first.item.kind # "dict" THEN [raised |-> "AttributeError", out |-> printed]
       ELSE [raised |-> "", out |-> printed \o ItemLines(first.item)]

\* for values in field_values: if values and len(values) > 0: ...; break
RECURSIVE ScanArrays(_, _, _)
ScanArrays(field_values, i, out) ==
    IF i > Len(field_values) THEN [raised |-> "", out |-> out]
    ELSE LET values == field_values[i] IN
         IF ~Truthy(values) THEN ScanArrays(field_values, i + 1, out)
         ELSE IF ~HasLen(values) THEN [raised |-> "TypeError", out |-> out]
         ELSE IF PyLen(values) > 0 THEN SampleItemReport(values, out)
         ELSE ScanArrays(field_values, i + 1, out)

\* the key universe in the order sorted() gives
KeyOrder == <<"k1", "k2", "k3", "x", "y">>

\* sorted(all_keys)
Sorted(keySet) == SelectSeq(KeyOrder, LAMBDA k : k \in keySet)

KeySet(value) == {value.keys[i] : i \in 1..Len(value.keys)}

FirstObjectKeys(field_values) == KeySet(field_values[1])

\* all_keys = set(); for value in field_values:
\*     if isinstance(value, dict): all_keys.update(value.keys())
AllKeys(field_values) ==
    UNION {KeySet(field_values[i]) :
               i \in {j \in 1..Len(field_values) : field_values[j].kind = "dict"}}

\* for key, val in sample.items(): one line per key, with str(val)[:50] for
\* str, int, float and bool values
StructLines(sample) ==
    [i \in 1..Len(sample.keys) |->
        LET val == sample.items[i] IN
        IF val.kind \in {"str", "int", "bool"}
        THEN LineStructKeyText(sample.keys[i], TypeName(val), Prefix(Str(val), ObjTextLen))
        ELSE LineStructKey(sample.keys[i], TypeName(val))]

ArrayBranch(field_values, out) ==
    LET typed == Append(out, LineTypeArray)
        lengths == ArrayLengths(field_values)
    IN IF lengths.raised # "" THEN [raised |-> lengths.raised, out |-> typed]
       ELSE ScanArrays(field_values, 1, Append(typed, LineArrayLengths(lengths.lens)))

ObjectBranch(field_values, out) ==
    [raised |-> "",
     out |-> out \o <<LineTypeObject, LineKeysFound(Sorted(AllKeys(field_values))),
                      LineSampleStructure>>
                 \o StructLines(field_values[1])]

\* the whole function: what it raised, its local field_values and the lines
\* it printed before returning or raising
analyze_jsonb_field(recs, field) ==
    LET field_values == FieldValues(recs, field, 1)
        found == <<LineFound(Len(field_values), field)>>
        rest == IF field_values = <<>> THEN [raised |-> "", out |-> <<LineNoPopulated(field)>>]
                ELSE IF field_values[1].kind = "list" THEN ArrayBranch(field_values, found)
                ELSE IF field_values[1].kind = "dict" THEN ObjectBranch(field_values, found)
                ELSE [raised |-> "", out |-> found]
    IN [raised |-> rest.raised, field_values |-> field_values, out |-> rest.out]

----------------------------------------------------------------------------
(* Input universe of analyze_jsonb_field *)

ObjY == PyDict(<<"y">>, <<PyStr(<<"s">>)>>)

ObjYX == PyDict(<<"y", "x">>, <<PyStr(<<"s">>), PyNone>>)

Obj1 == PyDict(<<"k1">>, <<PyStr(<<"v", "1">>)>>)

Obj2 == PyDict(<<"k1", "k2">>, <<PyStr(<<"v", "1">>), PyInt(2)>>)

ObjK == PyDict(<<"k3", "k1">>, <<PyNone, PyBool(TRUE)>>)

ObjLong == PyDict(<<"k2">>, <<PyStr(GenStr(ObjTextLen + 2, 0))>>)

ArrX == PyList(<<ObjX>>)

ArrXY == PyList(<<ObjX, ObjY>>)

ArrY == PyList(<<ObjYX>>)

ArrScalar == PyList(<<PyInt(1)>>)

FalsyValues ==
    {PyNone, PyStr(<<>>), PyList(<<>>), PyDict(<<>>, <<>>), PyInt(0), PyBool(FALSE)}

JsonbValues ==
    FalsyValues \cup
    {PyStr(<<"a", "b">>), PyInt(7), PyBool(TRUE), ArrX, ArrXY, ArrY, ArrScalar,
     Obj1, Obj2, ObjK, ObjLong}

DeepValues == {PyList(<<>>), ArrX, ArrXY, PyStr(<<"a", "b">>), PyInt(7)}

MixedInputs == SeqsUpTo(RecordsOver({"b"}, JsonbValues), MaxMixed)

DeepInputs == SeqsUpTo([{"b"} -> DeepValues], MaxDeep)

Scenario9 ==
    <<[a |-> PyInt(1), b |-> PyList(<<>>)], [a |-> PyInt(2), b |-> ArrX]>>

Scenario10 == <<[c |-> Obj1], [c |-> Obj2]>>

JsonbInputs ==
    ((MixedInputs \cup DeepInputs) \X {"b"}) \cup ({Scenario9, Scenario10} \X {"a", "b", "c"})

InitJsonb ==
    /\ \E input \in JsonbInputs : records = input[1] /\ field_name = input[2]
    /\ pc = "call"
    /\ column_stats = NoStats
    /\ report = NoReport
    /\ NoRun

CallAnalyzeJsonbField ==
    /\ pc = "call"
    /\ report' = analyze_jsonb_field(records, field_name)
    /\ pc' = "returned"
    /\ UNCHANGED <<records, field_name, column_stats>>
    /\ UNCHANGED runVars

NextJsonb == CallAnalyzeJsonbField

SpecJsonb == InitJsonb /\ [][NextJsonb]_vars

----------------------------------------------------------------------------
(* One run of a script: __main__ calls analyze_clinical_trials.  Line       *)
(* numbers are those of analyze_clinical_trials_psycopg.py unless the       *)
(* supabase script is named.                                                *)

Scripts == {"supabase", "psycopg"}

\* the statements of analyze_clinical_trials of the direct-connection script,
\* in program order
PsycopgSteps ==
    <<"password", "connect", "count", "schema", "sample", "columns",
      "jsonb_eligibility_criteria", "jsonb_locations", "jsonb_contact_info", "display",
      "no_title", "empty_conditions", "status", "phase", "dates",
      "jsonb_population", "conditions", "countries", "close">>

\* the statements of analyze_clinical_trials of the supabase script
SupabaseSteps ==
    <<"client", "count", "sample", "columns",
      "jsonb_eligibility_criteria", "jsonb_locations", "jsonb_contact_info", "display",
      "no_title", "empty_conditions", "status", "phase", "dates">>

StepsOf(s) == IF s = "psycopg" THEN PsycopgSteps ELSE SupabaseSteps

IndexOf(seq, step) == CHOOSE i \in 1..Len(seq) : seq[i] = step

\* the statement after step; the function returns after its last statement
After(s, step) ==
    LET steps == StepsOf(s)
        i == IndexOf(steps, step)
    IN IF i = Len(steps) THEN "returned" ELSE steps[i + 1]

\* the queries whose result is only printed
PlainQueries ==
    {"count", "schema", "no_title", "empty_conditions", "status", "phase", "dates",
     "conditions", "countries"}

JsonbSteps == {"jsonb_eligibility_criteria", "jsonb_locations", "jsonb_contact_info"}

\* analyze_jsonb_field(sample_records, '<field>')
FieldOf(step) ==
    CASE step = "jsonb_eligibility_criteria" -> "eligibility_criteria"
      [] step = "jsonb_locations" -> "locations"
      [] OTHER -> "contact_info"

\* what a failing call of the client library raises
ClientError(s) == IF s = "psycopg" THEN "psycopg2.Error" ELSE "APIError"

\* the statement at pc completes and control moves to next
Complete(next) ==
    /\ pc' = next
    /\ done' = Append(done, pc)
    /\ UNCHANGED exc

\* the statement at pc raises: control leaves the straight-line code
Raise(kind) ==
    /\ pc' = "raised"
    /\ exc' = [kind |-> kind, at |-> pc, progress |-> Len(done),
               caught_by |-> "", printed |-> <<>>]
    /\ UNCHANGED done

\* db_password = get_db_password(), before the try; input() raises EOFError
\* on a closed stdin
GetDbPassword ==
    /\ script = "psycopg"
    /\ pc = "password"
    /\ \/ Complete(After(script, pc))
       \/ Raise("EOFError")
    /\ UNCHANGED <<records, field_name, column_stats, report, script, table, conn>>

\* conn = psycopg2.connect(...); cursor = conn.cursor()
Connect ==
    /\ script = "psycopg"
    /\ pc = "connect"
    /\ \/ /\ conn' = [state |-> "open", acquired |-> conn.acquired + 1]
          /\ Complete(After(script, pc))
       \/ /\ Raise(ClientError(script))
          /\ UNCHANGED conn
    /\ UNCHANGED <<records, field_name, column_stats, report, script, table>>

\* supabase script: supabase_client = supabase.create_client(...)
CreateClient ==
    /\ script = "supabase"
    /\ pc = "client"
    /\ Complete(After(script, pc))
    /\ UNCHANGED <<records, field_name, column_stats, report, script, table, conn>>

\* a query whose rows are printed as they come; the call may fail
Query ==
    /\ script \in Scripts
    /\ pc \in PlainQueries
    /\ \/ Complete(After(script, pc))
       \/ Raise(ClientError(script))
    /\ UNCHANGED <<records, field_name, column_stats, report, script, table, conn>>

\* SELECT * FROM clinical_trials LIMIT 5; if sample_records: ...
FetchSample ==
    /\ script \in Scripts
    /\ pc = "sample"
    /\ \/ /\ records' = Prefix(table, SampleLimit)
          /\ Complete(IF table = <<>> THEN "no_title" ELSE "columns")
       \/ /\ Raise(ClientError(script))
          /\ UNCHANGED records
    /\ UNCHANGED <<field_name, column_stats, report, script, table, conn>>

\* column_stats = analyze_column_population(sample_records) and its printing
AnalyzeColumns ==
    /\ script \in Scripts
    /\ pc = "columns"
    /\ column_stats' = analyze_column_population(records)
    /\ Complete(After(script, pc))
    /\ UNCHANGED <<records, field_name, report, script, table, conn>>

\* analyze_jsonb_field(sample_records, '<field>'): what it raises leaves it
AnalyzeJsonb ==
    /\ script \in Scripts
    /\ pc \in JsonbSteps
    /\ field_name' = FieldOf(pc)
    /\ report' = analyze_jsonb_field(records, FieldOf(pc))
    /\ IF report'.raised # "" THEN Raise(report'.raised) ELSE Complete(After(script, pc))
    /\ UNCHANGED <<records, column_stats, script, table, conn>>

\* value[:k] is defined for str and list; None, a number and a bool are not
\* subscriptable and a dict cannot be indexed by a slice: each raises TypeError
Sliceable(value) == value.kind \in {"str", "list"}

\* record.get('title', 'N/A')[:100]: the default stands in for a missing
\* key only; a null title is None, which cannot be sliced
TitleSliceable(record) ==
    "title" \in DOMAIN record => Sliceable(record["title"])

\* if record.get('locations'):
\*     len(record.get('locations', [])); record.get('locations', [])[:2]
\* a truthy value without len() raises TypeError at len, a dict at the slice;
\* json.dumps of each item of the slice does not fail
LocationsPrintable(record) ==
    LET locations == Get(record, "locations") IN
    Truthy(locations) => (HasLen(locations) /\ Sliceable(locations))

\* one pass of the loop body: the title line, the other columns (printed
\* as they are), then the three JSONB fields; json.dumps of
\* eligibility_criteria and contact_info does not fail
RecordDisplayable(record) == TitleSliceable(record) /\ LocationsPrintable(record)

\* for i, record in enumerate(sample_records[:2]): ...
\* every failure of the loop body is a TypeError
DisplaySamples ==
    /\ script \in Scripts
    /\ pc = "display"
    /\ LET shown == Prefix(records, DisplayCap) IN
       IF \A i \in 1..Len(shown) : RecordDisplayable(shown[i])
       THEN Complete(After(script, pc))
       ELSE Raise("TypeError")
    /\ UNCHANGED <<records, field_name, column_stats, report, script, table, conn>>

\* the JSONB field population query; each percentage divides by
\* jsonb_stats['total'], the COUNT(*) of the table
JsonbPopulation ==
    /\ script = "psycopg"
    /\ pc = "jsonb_population"
    /\ \/ Raise(ClientError(script))
       \/ IF Len(table) = 0 THEN Raise("ZeroDivisionError")
          ELSE Complete(After(script, pc))
    /\ UNCHANGED <<records, field_name, column_stats, report, script, table, conn>>

\* cursor.close(); conn.close()
Close ==
    /\ script = "psycopg"
    /\ pc = "close"
    /\ conn' = [conn EXCEPT !.state = "closed"]
    /\ Complete(After(script, pc))
    /\ UNCHANGED <<records, field_name, column_stats, report, script, table>>

CaughtByInnerBroad(s, e) == s = "psycopg" /\ e.at # "password"

\* except psycopg2.Error as e: around everything after get_db_password()
CaughtByInner(s, e) ==
    /\ s = "psycopg"
    /\ e.at # "password"
    /\ e.kind = "psycopg2.Error"

\* print(f"Database error: {e}"); if 'conn' in locals(): conn.close()
\* and analyze_clinical_trials returns normally
DbHandler ==
    /\ pc = "raised"
    /\ CaughtByInner(script, exc)
    /\ exc' = [exc EXCEPT !.caught_by = "inner", !.printed = <<"Database error">>]
    /\ conn' = IF conn.state = "open" THEN [conn EXCEPT !.state = "closed"] ELSE conn
    /\ pc' = "returned"
    /\ UNCHANGED <<records, field_name, column_stats, report, script, table, done>>

\* __main__: except Exception as e: print(f"Error analyzing clinical
\* trials: {e}"); traceback.print_exc()
EntryHandler ==
    /\ pc = "raised"
    /\ ~CaughtByInner(script, exc)
    /\ exc' = [exc EXCEPT !.caught_by = "entry",
                          !.printed = <<"Error analyzing clinical trials", "traceback">>]
    /\ pc' = "exited"
    /\ UNCHANGED <<records, field_name, column_stats, report, script, table, conn, done>>

\* analyze_clinical_trials has returned to __main__ and the script ends
Exit ==
    /\ script \in Scripts
    /\ pc = "returned"
    /\ pc' = "exited"
    /\ UNCHANGED <<records, field_name, column_stats, report, script, table, conn, exc, done>>

(* The rows of the table *)

RowFull ==
    [title |-> PyStr(<<"T">>), eligibility_criteria |-> Obj1,
     locations |-> ArrX, contact_info |-> Obj2]

RowNulls ==
    [title |-> PyNone, eligibility_criteria |-> PyNone,
     locations |-> PyNone, contact_info |-> PyNone]

RowScalarLocations ==
    [title |-> PyStr(<<"T">>), eligibility_criteria |-> PyNone,
     locations |-> ArrScalar, contact_info |-> PyNone]

RowNumberLocations ==
    [title |-> PyStr(<<"T">>), eligibility_criteria |-> PyNone,
     locations |-> PyInt(7), contact_info |-> PyNone]

Rows == {RowFull, RowNulls, RowScalarLocations, RowNumberLocations}

Tables == SeqsUpTo(Rows, MaxRows)

InitRun ==
    /\ script \in Scripts
    /\ table \in Tables
    /\ pc = StepsOf(script)[1]
    /\ records = <<>>
    /\ field_name = "eligibility_criteria"
    /\ column_stats = NoStats
    /\ report = NoReport
    /\ conn = NoConn
    /\ exc = NoExc
    /\ done = <<>>

NextRun ==
    \/ GetDbPassword
    \/ Connect
    \/ CreateClient
    \/ Query
    \/ FetchSample
    \/ AnalyzeColumns
    \/ AnalyzeJsonb
    \/ DisplaySamples
    \/ JsonbPopulation
    \/ Close
    \/ DbHandler
    \/ EntryHandler
    \/ Exit

SpecRun == InitRun /\ [][NextRun]_vars

----------------------------------------------------------------------------
(* Properties of analyze_column_population *)

StatsReturned == pc = "returned" /\ column_stats.raised = ""

Stats == column_stats.value

\* present, not null, not the empty string and not an empty array
ClaimPopulated(record, col) ==
    /\ col \in DOMAIN record
    /\ record[col] # PyNone
    /\ record[col] # PyStr(<<>>)
    /\ record[col] # PyList(<<>>)

PopulatedPositions(col) == {i \in 1..Len(records) : ClaimPopulated(records[i], col)}

PositionsHolding(col, vals) ==
    {i \in 1..Len(records) : col \in DOMAIN records[i] /\ records[i][col] \in vals}

\* the j-th smallest element of a set of positions
NthPosition(P, j) == CHOOSE p \in P : Cardinality({q \in P : q <= p}) = j

Min(x, y) == IF x < y THEN x ELSE y

\* C1: a column's populated count is the number of records whose value for
\* the column is present, not null, not "" and not []; so null, "" and []
\* add nothing to the count while 0, false and {} each add one.
C1_PopulatedRule ==
    pc = "returned" =>
        /\ column_stats.raised = ""
        /\ \A col \in DOMAIN Stats :
              /\ Stats[col].populated = Cardinality(PopulatedPositions(col))
              /\ Stats[col].populated >=
                     Cardinality(PositionsHolding(col,
                         {PyInt(0), PyBool(FALSE), PyDict(<<>>, <<>>)}))
              /\ Stats[col].populated <= Len(records) -
                     Cardinality(PositionsHolding(col,
                         {PyNone, PyStr(<<>>), PyList(<<>>)}))

C1_Witness ==
    /\ StatsReturned
    /\ Len(records) = 4
    /\ "a" \in DOMAIN Stats
    /\ PositionsHolding("a", {PyInt(0)}) # {}
    /\ PositionsHolding("a", {PyBool(FALSE)}) # {}
    /\ PositionsHolding("a", {PyDict(<<>>, <<>>)}) # {}
    /\ PositionsHolding("a", {PyNone, PyStr(<<>>), PyList(<<>>)}) # {}
    /\ Stats["a"].populated = 3

\* C2: the keys of the returned mapping are the union of the keys of all
\* input records, and every column's total is the number of input records.
C2_KeyUnionAndTotal ==
    pc = "returned" =>
        /\ column_stats.raised = ""
        /\ DOMAIN Stats = UNION {DOMAIN records[i] : i \in 1..Len(records)}
        /\ \A col \in DOMAIN Stats : Stats[col].total = Len(records)

C2_Witness ==
    /\ StatsReturned
    /\ Len(records) = 2
    /\ DOMAIN records[1] = {"a"}
    /\ DOMAIN records[2] = {"b"}
    /\ DOMAIN Stats = {"a", "b"}
    /\ Stats["b"].total = 2

\* C3: an empty record sequence returns an empty mapping and raises nothing.
C3_EmptyInput ==
    (pc = "returned" /\ records = <<>>) =>
        /\ column_stats.raised = ""
        /\ DOMAIN column_stats.value = {}

C3_Witness ==
    /\ pc = "returned"
    /\ records = <<>>
    /\ column_stats = Returned(EmptyMapping)

\* C4: a column's sample-value list holds the formatted forms of exactly the
\* first min(3, populated) populated values in record order, so it is no
\* longer than 3 and no longer than the populated count.
C4_FirstThreeSamples ==
    pc = "returned" =>
        /\ column_stats.raised = ""
        /\ \A col \in DOMAIN Stats :
              LET P == PopulatedPositions(col)
                  k == Min(3, Cardinality(P))
                  sv == Stats[col].sample_values
              IN /\ Len(sv) = k
                 /\ Len(sv) <= 3
                 /\ Len(sv) <= Stats[col].populated
                 /\ \A j \in 1..k :
                       sv[j] = FormatSample(records[NthPosition(P, j)][col])

C4_Witness ==
    /\ StatsReturned
    /\ Len(records) = 4
    /\ \A i \in 1..4 : DOMAIN records[i] = {"a"}
    /\ Stats["a"].populated = 4
    /\ Len(Stats["a"].sample_values) = 3
    /\ records[1]["a"] = PyInt(0)
    /\ records[2]["a"] = PyList(<<PyInt(1)>>)
    /\ records[3]["a"] = PyBool(FALSE)
    /\ records[4]["a"] = ObjX
    /\ Stats["a"].sample_values[2] =
           <<"l", "i", "s", "t", " ", "w", "i", "t", "h", " ", "1", " ", "i", "t", "e", "m", "s">>

IsScalar(value) == value.kind \notin {"dict", "list"}

\* C5: a populated scalar whose string form is longer than 50 characters is
\* recorded as its first 50 characters followed by "...", and one of 50
\* characters or fewer is recorded unchanged.
C5_ScalarTruncation ==
    pc = "returned" =>
        /\ column_stats.raised = ""
        /\ \A col \in DOMAIN Stats :
              LET P == PopulatedPositions(col)
                  sv == Stats[col].sample_values
              IN \A j \in 1..Len(sv) :
                    LET value == records[NthPosition(P, j)][col]
                        text == Str(value)
                    IN IsScalar(value) =>
                          IF Len(text) > 50
                          THEN /\ Len(sv[j]) = 53
                               /\ SubSeq(sv[j], 1, 50) = SubSeq(text, 1, 50)
                               /\ SubSeq(sv[j], 51, 53) = <<".", ".", ".">>
                          ELSE sv[j] = text

C5_Witness ==
    /\ StatsReturned
    /\ Len(records) = 1
    /\ DOMAIN records[1] = {"a"}
    /\ records[1]["a"].kind = "str"
    /\ Len(records[1]["a"].s) = 52
    /\ Stats["a"].sample_values = <<SubSeq(records[1]["a"].s, 1, 50) \o <<".", ".", ".">>>>

----------------------------------------------------------------------------
(* Properties of analyze_jsonb_field *)

\* the lines of the report printed by one print statement
LinesTagged(tag) == SelectSeq(report.out, LAMBDA line : line.tag = tag)

\* present and none of null, "", [], {}, 0, false
ClaimIncluded(record, field) ==
    /\ field \in DOMAIN record
    /\ record[field] \notin
           {PyNone, PyStr(<<>>), PyList(<<>>), PyDict(<<>>, <<>>), PyInt(0), PyBool(FALSE)}

IncludedPositions == {i \in 1..Len(records) : ClaimIncluded(records[i], field_name)}

\* the populated values of the field, in record order
PopulatedValues ==
    [j \in 1..Cardinality(IncludedPositions) |->
        records[NthPosition(IncludedPositions, j)][field_name]]

PopulatedOfKind(kind) == SelectSeq(PopulatedValues, LAMBDA value : value.kind = kind)

ArrayBranchTaken ==
    pc = "returned" /\ report.field_values # <<>> /\ report.field_values[1].kind = "list"

ObjectBranchTaken ==
    pc = "returned" /\ report.field_values # <<>> /\ report.field_values[1].kind = "dict"

\* C6: the populated values are exactly the present values other than null,
\* "", [], {}, 0 and false, kept in record order; when there is none the
\* report is the single "No populated" line.
C6_TruthinessFilter ==
    pc = "returned" =>
        /\ report.field_values = PopulatedValues
        /\ IncludedPositions = {} =>
              /\ report.raised = ""
              /\ report.out = <<LineNoPopulated(field_name)>>
        /\ IncludedPositions # {} => LinesTagged("NoPopulated") = <<>>

C6_Witness ==
    /\ pc = "returned"
    /\ field_name = "b"
    /\ records = <<[b |-> PyInt(7)], [b |-> PyDict(<<>>, <<>>)], [b |-> PyStr(<<"a", "b">>)]>>
    /\ report.field_values = <<PyInt(7), PyStr(<<"a", "b">>)>>
    /\ report.out = <<LineFound(2, "b")>>

\* C7 (as claimed): in the array branch the report holds one array-length
\* list, of length min(5, number of populated arrays), giving the lengths of
\* the first 5 populated arrays in record order, whatever populated values
\* follow the first one.
C7_ArrayLengthsOfArrays ==
    ArrayBranchTaken =>
        LET arrays == PopulatedOfKind("list")
            k == Min(5, Len(arrays))
        IN /\ Len(LinesTagged("ArrayLengths")) = 1
           /\ LinesTagged("ArrayLengths")[1].lens = [j \in 1..k |-> Len(arrays[j].items)]

\* the populated arrays that have at least one element
NonEmptyArrays == SelectSeq(PopulatedOfKind("list"), LAMBDA value : Len(value.items) > 0)

\* C8 (as claimed): in the array branch the key/type layout is reported
\* exactly once, for the first element of the first populated array with at
\* least one element; the reported keys are that element's keys, nothing
\* later contributes, and the report completes without error whatever the
\* kind of that element.  The scan starts once the length list is printed.
ScanStarted == ArrayBranchTaken /\ LinesTagged("ArrayLengths") # <<>>

C8_FirstElementLayout ==
    ScanStarted =>
        LET element == NonEmptyArrays[1].items[1]
        IN /\ NonEmptyArrays # <<>>
           /\ report.raised = ""
           /\ Len(LinesTagged("SampleItemStructure")) = 1
           /\ Len(LinesTagged("ItemKey")) = Len(element.keys)
           /\ \A i \in 1..Len(element.keys) :
                 LinesTagged("ItemKey")[i].key = element.keys[i]

Scenario9Run == pc = "returned" /\ records = Scenario9 /\ field_name = "b"

\* C9 (as claimed): for the records [{"a": 1, "b": []}, {"a": 2, "b": [{"x": 1}]}]
\* and field b, the length list is [0, 1] and the element shape is the
\* single key x typed as a number.
C9_ScenarioAsClaimed ==
    Scenario9Run =>
        /\ report.raised = ""
        /\ Len(LinesTagged("ArrayLengths")) = 1
        /\ LinesTagged("ArrayLengths")[1].lens = <<0, 1>>
        /\ LinesTagged("ItemKey") = <<LineItemKey("x", "int")>>

\* C9 (amended): for those records and field b, the empty array is filtered
\* out, so the length list is [1]; the element shape is the single key x
\* typed as a number (int).
C9_ScenarioAmended ==
    Scenario9Run =>
        /\ report.raised = ""
        /\ report.field_values = <<ArrX>>
        /\ Len(LinesTagged("ArrayLengths")) = 1
        /\ LinesTagged("ArrayLengths")[1].lens = <<1>>
        /\ LinesTagged("ItemKey") = <<LineItemKey("x", "int")>>

C9_Witness == Scenario9Run /\ report.out[1] = LineFound(1, "b") /\ Len(report.out) = 5

Scenario10Run == pc = "returned" /\ records = Scenario10 /\ field_name = "c"

\* C10: in the object branch the reported key set is the union of the keys
\* of all populated object values, while the per-key type lines cover
\* exactly the keys of the first populated object; for
\* [{"c": {"k1": "v1"}}, {"c": {"k1": "v1", "k2": 2}}] the keys are k1, k2
\* and k1 is typed as a string.
C10_ObjectKeys ==
    /\ ObjectBranchTaken =>
          LET objects == PopulatedOfKind("dict")
              reported == LinesTagged("KeysFound")
              typed == LinesTagged("StructKey")
          IN /\ report.raised = ""
             /\ Len(reported) = 1
             /\ {reported[1].keys[i] : i \in 1..Len(reported[1].keys)} =
                    UNION {KeySet(objects[j]) : j \in 1..Len(objects)}
             /\ Len(reported[1].keys) = Cardinality(UNION {KeySet(objects[j]) : j \in 1..Len(objects)})
             /\ [i \in 1..Len(typed) |-> typed[i].key] = objects[1].keys
    /\ Scenario10Run =>
          /\ ObjectBranchTaken
          /\ LinesTagged("KeysFound")[1].keys = <<"k1", "k2">>
          /\ Len(LinesTagged("StructKey")) = 1
          /\ LinesTagged("StructKey")[1].key = "k1"
          /\ LinesTagged("StructKey")[1].typ = "str"

C10_Witness ==
    /\ Scenario10Run
    /\ report.raised = ""
    /\ LinesTagged("KeysFound") = <<LineKeysFound(<<"k1", "k2">>)>>
    /\ LinesTagged("StructKey") = <<LineStructKeyText("k1", "str", <<"v", "1">>)>>

----------------------------------------------------------------------------
(* Properties of a run *)

Failed == exc.kind # ""

EntryReport == <<"Error analyzing clinical trials", "traceback">>

\* no statement of the analysis completes after the failure, and no
\* statement completes twice
NothingAfterFailure ==
    /\ Failed => Len(done) = exc.progress
    /\ \A i, j \in 1..Len(done) : done[i] = done[j] => i = j
    /\ conn.acquired <= 1

\* C11 (as claimed): in both scripts every failure raised during
\* analyze_clinical_trials reaches the catch-all of the entry point, which
\* prints the message and the trace and ends the run; no other handler takes
\* it first, no step runs after it and nothing is retried.
C11_SingleBoundary ==
    /\ NothingAfterFailure
    /\ Failed => exc.caught_by # "inner"
    /\ (Failed /\ pc \in {"returned", "exited"}) =>
          /\ exc.caught_by = "entry"
          /\ exc.printed = EntryReport
          /\ pc = "exited"

\* C11 (amended): a psycopg2.Error raised in the direct-connection script is
\* taken by the handler inside analyze_clinical_trials, which prints
\* "Database error" without a trace and returns normally; every other
\* failure, and every failure of the supabase script, reaches the catch-all
\* of the entry point, which prints the message and the trace and ends the
\* run.  In both scripts no step runs after the failure and nothing is
\* retried.
C11_TwoBoundaries ==
    /\ NothingAfterFailure
    /\ (Failed /\ pc \in {"returned", "exited"}) =>
          IF script = "psycopg" /\ exc.kind = "psycopg2.Error"
          THEN /\ exc.caught_by = "inner"
               /\ exc.printed = <<"Database error">>
          ELSE /\ exc.caught_by = "entry"
               /\ exc.printed = EntryReport
               /\ pc = "exited"

C11_Witness ==
    /\ script = "psycopg"
    /\ pc = "exited"
    /\ exc.kind = "psycopg2.Error"
    /\ exc.at = "status"
    /\ exc.caught_by = "inner"
    /\ Len(done) = exc.progress
    /\ Len(done) >= 7

\* a value that is absent, null or empty, or a well-shaped document: a str
\* title, an object, an array of objects
MissingOrShaped(value) ==
    \/ ~Truthy(value)
    \/ value.kind \in {"str", "dict"}
    \/ value.kind = "list" /\ \A i \in 1..Len(value.items) : value.items[i].kind = "dict"

\* the table holds only missing, empty or well-shaped data
OnlyMissingOrShapedData ==
    \A i \in 1..Len(table) : \A col \in DOMAIN table[i] : MissingOrShaped(table[i][col])

DataErrors == {"TypeError", "AttributeError", "KeyError", "ZeroDivisionError"}

\* C12 (as claimed): on missing or empty data (an empty table, an empty
\* sample, a sampled record whose columns such as title are null) every
\* analysis step prints its result and the run goes on; the only failure
\* such data can cause is a division by a zero total.
C12_GracefulOnMissingData ==
    (script \in Scripts /\ OnlyMissingOrShapedData /\ exc.kind \in DataErrors) =>
        exc.kind = "ZeroDivisionError"

\* C13 (as claimed): a run of the direct-connection script acquires at most
\* one connection, and a connection that was opened is closed by the time
\* analyze_clinical_trials ends, whether it returns, handles a database
\* error or lets another exception out.
FunctionEnded ==
    \/ pc \in {"returned", "exited"}
    \/ pc = "raised" /\ ~CaughtByInner(script, exc)

C13_ConnectionClosed ==
    script = "psycopg" =>
        /\ conn.acquired <= 1
        /\ FunctionEnded => conn.state # "open"

====
